---- MODULE Spec2Model ----
(***************************************************************************)
(* Boyer-Moore search with the bad-character rule (src/src/bm.py).         *)
(*                                                                         *)
(* A Bm instance holds text, pattern and the table built from the pattern. *)
(* search() is modelled statement by statement: the entry checks, the      *)
(* outer loop over alignments, the right-to-left comparison loop, and the  *)
(* slide by decide_slide_width.  Strings are sequences of units; Python    *)
(* indices are 0-based, TLA+ sequences 1-based, and s[i] in Python yields  *)
(* a string of length one (or raises IndexError, or wraps for i < 0).      *)
(***************************************************************************)
EXTENDS Integers, Sequences, FiniteSets

\* Bounds of the model: the alphabet size and the longest text and pattern.
NumUnits == 2
MaxTextLen == 4
MaxPatLen == 4

Units == 1..NumUnits

StringsUpTo(n) == UNION {[1..k -> Units] : k \in 0..n}

VARIABLES
    text,               \* self.text
    pattern,            \* self.pattern
    table,              \* self.table
    pc,                 \* position of the search() call
    text_index,         \* local of search()
    pattern_index,      \* local of search()
    current_text_index, \* local of search()
    ret,                \* << >> while nothing was returned, <<v>> after return v
    built,              \* history: the fields as __init__ left them
    iters,              \* history: outer-loop iterations begun in this call
    slides,             \* history: the values of decide_slide_width in this call
    reads               \* history: subscript reads of self.text in this call

vars == <<text, pattern, table, pc, text_index, pattern_index,
          current_text_index, ret, built, iters, slides, reads>>

----------------------------------------------------------------------------
\* Python strings and dicts

\* s[i] is defined for -len(s) <= i < len(s); otherwise IndexError.
InRange(s, i) == -Len(s) <= i /\ i < Len(s)

\* s[i]: a string of length one; a negative index counts from the end.
PyGetItem(s, i) == << s[(IF i < 0 THEN Len(s) + i ELSE i) + 1] >>

EmptyDict == [k \in {} |-> 0]

\* d[k] = v
DictSet(d, k, v) == [x \in (DOMAIN d) \cup {k} |-> IF x = k THEN v ELSE d[x]]

\* d.get(k, default)
DictGet(d, k, default) == IF k \in DOMAIN d THEN d[k] ELSE default

----------------------------------------------------------------------------
\* make_km_table

\* range(pattern_length - 1) with first occurrence kept instead of last.
RECURSIVE km_loop_first_wins(_, _, _)
km_loop_first_wins(p, i, t) ==
    IF i >= Len(p) - 1 THEN t
    ELSE km_loop_first_wins(p, i + 1,
            IF PyGetItem(p, i) \in DOMAIN t THEN t
            ELSE DictSet(t, PyGetItem(p, i), Len(p) - 1 - i))

\* for i in range(pattern_length - 1): table[pattern[i]] = pattern_length - 1 - i
RECURSIVE km_loop(_, _, _)
km_loop(p, i, t) ==
    IF i >= Len(p) - 1 THEN t
    ELSE km_loop(p, i + 1, DictSet(t, PyGetItem(p, i), Len(p) - 1 - i))

\* the loop running over range(pattern_length): the last unit gets distance 0
RECURSIVE km_loop_whole(_, _, _)
km_loop_whole(p, i, t) ==
    IF i >= Len(p) THEN t
    ELSE km_loop_whole(p, i + 1, DictSet(t, PyGetItem(p, i), Len(p) - 1 - i))

make_km_table_first_wins(p) == km_loop_first_wins(p, 0, EmptyDict)

make_km_table_whole(p) == km_loop_whole(p, 0, EmptyDict)

make_km_table(p) == km_loop(p, 0, EmptyDict)

----------------------------------------------------------------------------
\* Bm.decide_slide_width

\* assert len(c) == 1
SlideAssert(c) == Len(c) = 1

\* the lookup with 0 as the default for an absent unit
decide_slide_width_zero_default(c) == DictGet(table, c, 0)

\* the lookup with a default one past the pattern length
decide_slide_width_overshoot(c) == DictGet(table, c, Len(pattern) + 1)

\* self.table.get(c, len(self.pattern))
decide_slide_width(c) == DictGet(table, c, Len(pattern))

----------------------------------------------------------------------------
\* Bm.search: conditions

EntryGuardNoEmpty(pattern_length, text_length) == pattern_length > text_length

EntryGuardNoLonger(pattern_length, text_length) == pattern_length = 0

\* if pattern_length == 0 or pattern_length > text_length
EntryGuard(pattern_length, text_length) ==
    pattern_length = 0 \/ pattern_length > text_length

\* if self.pattern == self.text
FastPath == pattern = text

OuterCondInclusive(ti, text_length) == ti <= text_length

\* while text_index < text_length
OuterCond(ti, text_length) == ti < text_length

\* the left operand of `and`: the subscripts are evaluated only if it is true
InnerReads(pi) == pi >= 0

FullMatchOffByOne(pi) == pi <= 0

\* if pattern_index < 0
FullMatch(pi) == pi < 0

MatchStartNoAdjust(cti) == cti

\* return current_text_index + 1
MatchStart(cti) == cti + 1

\* Outcome of evaluating
\*   pattern_index >= 0 and self.pattern[pattern_index] == self.text[current_text_index]
InnerEval ==
    IF ~InnerReads(pattern_index) THEN "false"
    ELSE IF ~InRange(pattern, pattern_index) \/ ~InRange(text, current_text_index)
         THEN "raise"
    ELSE IF PyGetItem(pattern, pattern_index) = PyGetItem(text, current_text_index)
         THEN "true"
    ELSE "false"

RetPcs == {"ret75", "ret78", "ret91", "ret95"}

Returned == pc \in RetPcs

Result == ret[1]

\* search() may be called on a constructed instance, and again after it returned.
Callable == pc = "idle" \/ Returned

----------------------------------------------------------------------------
\* State after Bm(text, pattern): __init__ has stored the fields.

Init ==
    /\ text \in StringsUpTo(MaxTextLen)
    /\ pattern \in StringsUpTo(MaxPatLen)
    /\ table = make_km_table(pattern)
    /\ pc = "idle"
    /\ text_index = 0
    /\ pattern_index = 0
    /\ current_text_index = 0
    /\ ret = << >>
    /\ built = [text |-> text, pattern |-> pattern, table |-> table]
    /\ iters = 0
    /\ slides = << >>
    /\ reads = 0

\* A call starts with fresh locals and nothing returned.
FreshCall ==
    /\ pattern_index' = 0
    /\ current_text_index' = 0
    /\ iters' = 0
    /\ slides' = << >>
    /\ reads' = 0

\* lines 71-75: the degenerate lengths
EntryReject ==
    /\ Callable
    /\ EntryGuard(Len(pattern), Len(text))
    /\ FreshCall
    /\ text_index' = 0
    /\ ret' = << -1 >>
    /\ pc' = "ret75"
    /\ UNCHANGED <<text, pattern, table, built>>

\* lines 77-78: pattern and text are the same string
EntryEqual ==
    /\ Callable
    /\ ~EntryGuard(Len(pattern), Len(text))
    /\ FastPath
    /\ FreshCall
    /\ text_index' = 0
    /\ ret' = << 0 >>
    /\ pc' = "ret78"
    /\ UNCHANGED <<text, pattern, table, built>>

\* line 80: text_index = pattern_length - 1
EntryScan ==
    /\ Callable
    /\ ~EntryGuard(Len(pattern), Len(text))
    /\ ~FastPath
    /\ FreshCall
    /\ text_index' = Len(pattern) - 1
    /\ ret' = << >>
    /\ pc' = "outer"
    /\ UNCHANGED <<text, pattern, table, built>>

\* lines 82-84: the loop test holds; set up the comparison
OuterEnter ==
    /\ pc = "outer"
    /\ OuterCond(text_index, Len(text))
    /\ pattern_index' = Len(pattern) - 1
    /\ current_text_index' = text_index
    /\ iters' = iters + 1
    /\ pc' = "inner"
    /\ UNCHANGED <<text, pattern, table, text_index, ret, built, slides, reads>>

\* lines 82, 95: the loop test fails
OuterExit ==
    /\ pc = "outer"
    /\ ~OuterCond(text_index, Len(text))
    /\ ret' = << -1 >>
    /\ pc' = "ret95"
    /\ UNCHANGED <<text, pattern, table, text_index, pattern_index,
                   current_text_index, built, iters, slides, reads>>

\* lines 86-88: the units agree; step both cursors to the left
InnerMatch ==
    /\ pc = "inner"
    /\ InnerEval = "true"
    /\ pattern_index' = pattern_index - 1
    /\ current_text_index' = current_text_index - 1
    /\ reads' = reads + 1
    /\ UNCHANGED <<text, pattern, table, pc, text_index, ret, built, iters, slides>>

\* line 86: the condition is false (or a subscript raises IndexError)
InnerStop ==
    /\ pc = "inner"
    /\ InnerEval # "true"
    /\ pc' = IF InnerEval = "raise" THEN "raised" ELSE "check"
    /\ reads' = IF InnerReads(pattern_index) /\ InnerEval # "raise"
                THEN reads + 1 ELSE reads
    /\ UNCHANGED <<text, pattern, table, text_index, pattern_index,
                   current_text_index, ret, built, iters, slides>>

\* lines 90-91
ReturnMatch ==
    /\ pc = "check"
    /\ FullMatch(pattern_index)
    /\ ret' = << MatchStart(current_text_index) >>
    /\ pc' = "ret91"
    /\ UNCHANGED <<text, pattern, table, text_index, pattern_index,
                   current_text_index, built, iters, slides, reads>>

\* line 93 written with self.table.setdefault(c, len(self.pattern))
SlideSetdefault ==
    /\ pc = "check"
    /\ ~FullMatch(pattern_index)
    /\ IF ~InRange(text, text_index)
       THEN /\ pc' = "raised"
            /\ UNCHANGED <<text_index, slides, reads, table>>
       ELSE LET c == PyGetItem(text, text_index) IN
            IF ~SlideAssert(c)
            THEN /\ pc' = "raised"
                 /\ reads' = reads + 1
                 /\ UNCHANGED <<text_index, slides, table>>
            ELSE /\ text_index' = text_index + decide_slide_width(c)
                 /\ slides' = Append(slides, decide_slide_width(c))
                 /\ table' = DictSet(table, c, decide_slide_width(c))
                 /\ reads' = reads + 1
                 /\ pc' = "outer"
    /\ UNCHANGED <<text, pattern, pattern_index, current_text_index,
                   ret, built, iters>>

\* line 93: text_index += self.decide_slide_width(self.text[text_index])
Slide ==
    /\ pc = "check"
    /\ ~FullMatch(pattern_index)
    /\ IF ~InRange(text, text_index)
       THEN /\ pc' = "raised"
            /\ UNCHANGED <<text_index, slides, reads>>
       ELSE LET c == PyGetItem(text, text_index) IN
            IF ~SlideAssert(c)
            THEN /\ pc' = "raised"
                 /\ reads' = reads + 1
                 /\ UNCHANGED <<text_index, slides>>
            ELSE /\ text_index' = text_index + decide_slide_width(c)
                 /\ slides' = Append(slides, decide_slide_width(c))
                 /\ reads' = reads + 1
                 /\ pc' = "outer"
    /\ UNCHANGED <<text, pattern, table, pattern_index, current_text_index,
                   ret, built, iters>>

Next ==
    \/ EntryReject
    \/ EntryEqual
    \/ EntryScan
    \/ OuterEnter
    \/ OuterExit
    \/ InnerMatch
    \/ InnerStop
    \/ ReturnMatch
    \/ Slide

Spec == Init /\ [][Next]_vars

----------------------------------------------------------------------------
\* Lines 80-95 as a function of the instance: the scan without the entry checks.

\* lines 86-88: the cursors where the comparison loop stops
RECURSIVE inner(_, _)
inner(pi, cti) ==
    IF InnerReads(pi) /\ PyGetItem(pattern, pi) = PyGetItem(text, cti)
    THEN inner(pi - 1, cti - 1)
    ELSE <<pi, cti>>

\* lines 82-95: the value the loop returns when started at text_index = ti
RECURSIVE scan(_)
scan(ti) ==
    IF ~OuterCond(ti, Len(text)) THEN -1
    ELSE LET stop == inner(Len(pattern) - 1, ti) IN
         IF FullMatch(stop[1]) THEN MatchStart(stop[2])
         ELSE scan(ti + decide_slide_width(PyGetItem(text, ti)))

\* line 80 followed by the loop
GeneralScan == scan(Len(pattern) - 1)

----------------------------------------------------------------------------
\* What the claims speak about

\* the pattern occurs in the text starting at 0-based offset s
Occurs(s) ==
    /\ 0 <= s
    /\ s + Len(pattern) <= Len(text)
    /\ \A j \in 1..Len(pattern) : text[s + j] = pattern[j]

IsSubstring == \E s \in 0..Len(text) : Occurs(s)

\* the 0-based positions 0..L-2 of p holding unit u
InteriorPositions(p, u) == {i \in 0..(Len(p) - 2) : p[i + 1] = u}

SetMax(S) == CHOOSE m \in S : \A x \in S : x <= m

\* the pattern's offset in the text when its last unit is aligned at text_index
Alignment == text_index - (Len(pattern) - 1)

\* the distance of the latest slide of this call
LastSlide == slides[Len(slides)]

\* search() is inside or past the loop of lines 82-93
InScan == pc \in {"outer", "inner", "check", "ret91", "ret95"}

----------------------------------------------------------------------------
\* C1: for a non-empty pattern that occurs in the text, search() returns an
\* offset at which the pattern occurs, and no smaller offset is an occurrence;
\* the call does not end in an exception.
FirstOccurrenceReturned ==
    (Len(pattern) > 0 /\ IsSubstring) =>
        /\ pc # "raised"
        /\ Returned =>
            /\ Occurs(Result)
            /\ \A s \in 0..(Result - 1) : ~Occurs(s)

\* a match found by the scan after at least one slide, at a positive offset
FirstOccurrenceWitness ==
    /\ pc = "ret91"
    /\ Len(pattern) >= 2
    /\ IsSubstring
    /\ slides # << >>
    /\ Result > 0

\* C2: for a pattern that does not occur in the text, search() returns -1;
\* any non-negative value returned is an offset where the pattern occurs.
AbsentReturnsNotFound ==
    Returned =>
        /\ ~IsSubstring => Result = -1
        /\ Result # -1 => Occurs(Result)

\* the scan ran over several alignments of an absent pattern and gave up
AbsentWitness ==
    /\ pc = "ret95"
    /\ ~IsSubstring
    /\ Len(pattern) >= 2
    /\ iters >= 2
    /\ Result = -1

\* C3: the table's keys are exactly the units at positions 0..L-2 of the
\* pattern, each mapped to L-1-i_last for its last such position i_last; for
\* L <= 1 the table is empty.
TableIsLastOccurrenceDistance ==
    /\ DOMAIN table = {<<u>> : u \in {v \in Units : InteriorPositions(pattern, v) # {}}}
    /\ \A u \in Units :
          InteriorPositions(pattern, u) # {} =>
              table[<<u>>] = Len(pattern) - 1 - SetMax(InteriorPositions(pattern, u))
    /\ Len(pattern) <= 1 => table = EmptyDict

\* pattern AABA: the table is {A: 2, B: 1}
TableWitness ==
    /\ pattern = <<1, 1, 2, 1>>
    /\ DOMAIN table = {<<1>>, <<2>>}
    /\ table[<<1>>] = 2
    /\ table[<<2>>] = 1

\* C4: with an empty pattern search() returns -1, whatever the text.
EmptyPatternNotFound ==
    (Len(pattern) = 0 /\ pc # "idle") => (Returned /\ Result = -1)

\* an empty pattern searched in an empty text
EmptyPatternWitness ==
    /\ Len(pattern) = 0
    /\ Len(text) = 0
    /\ Returned
    /\ Result = -1

\* C5: with a pattern longer than the text search() returns -1 at line 75,
\* before the loop, without having read any position of the text.
LongerPatternRejectedAtEntry ==
    (Len(pattern) > Len(text) /\ pc # "idle") =>
        /\ pc = "ret75"
        /\ Result = -1
        /\ reads = 0
        /\ iters = 0

\* a non-empty text searched for a longer pattern
LongerPatternWitness ==
    /\ Len(text) >= 1
    /\ Len(pattern) > Len(text)
    /\ pc = "ret75"
    /\ Result = -1

\* C6: when pattern and text are the same non-empty string search() returns 0,
\* and 0 is also what the scan of lines 80-95 computes for that instance.
EqualStringsReturnZero ==
    (Len(pattern) > 0 /\ pattern = text /\ pc # "idle") =>
        /\ Returned
        /\ Result = 0
        /\ GeneralScan = 0

\* the fast path taken on equal strings of length at least two
EqualStringsWitness ==
    /\ Len(pattern) >= 2
    /\ pattern = text
    /\ pc = "ret78"
    /\ Result = 0

\* C7: in every state of a search the fields are as __init__ left them, and
\* the table is make_km_table of the pattern, whatever the text.
FieldsFixedAtConstruction ==
    /\ text = built.text
    /\ pattern = built.pattern
    /\ table = built.table
    /\ table = make_km_table(pattern)

\* a search that has slid on a unit absent from a non-empty table
FieldsFixedWitness ==
    /\ pc = "outer"
    /\ slides # << >>
    /\ LastSlide = Len(pattern)
    /\ table # EmptyDict

\* C8: every slide is by a distance in 1..len(pattern), so text_index grows by
\* at least one per iteration and the loop begins at most len(text) iterations.
SlidesPositiveAndBounded ==
    /\ iters <= Len(text)
    /\ \A i \in DOMAIN slides : slides[i] \in 1..Len(pattern)
    /\ InScan =>
          /\ text_index >= Len(pattern) - 1 + Len(slides)
          /\ pc \in {"outer", "ret95"} => Len(slides) = iters
          /\ pc \in {"inner", "check", "ret91"} => Len(slides) = iters - 1

\* the loop ran out of text after slides by a table entry and by the default
SlidesWitness ==
    /\ pc = "ret95"
    /\ Len(slides) >= 2
    /\ \E i \in DOMAIN slides : slides[i] < Len(pattern)
    /\ \E i \in DOMAIN slides : slides[i] = Len(pattern)

SubscriptsInRange ==
    /\ pc # "raised"
    /\ (pc = "inner" /\ InnerReads(pattern_index)) =>
          /\ 0 <= pattern_index /\ pattern_index < Len(pattern)
          /\ 0 <= current_text_index /\ current_text_index < Len(text)
    /\ pc \in {"inner", "check"} =>
          /\ current_text_index = text_index - (Len(pattern) - 1 - pattern_index)
          /\ Len(pattern) - 1 <= text_index /\ text_index < Len(text)
    /\ (pc = "check" /\ ~FullMatch(pattern_index)) =>
          SlideAssert(PyGetItem(text, text_index))

\* the comparison has consumed the whole pattern: the cursor is left of it
SubscriptsWitness ==
    /\ pc = "inner"
    /\ pattern_index = -1
    /\ current_text_index = -1
    /\ Len(pattern) >= 2

====
